---- MODULE Spec2Model ----
(***************************************************************************)
(* A model of polymarket_arb_scanner.py: the eligibility filters, the      *)
(* outcome extractor, the long-basket analyzer, the execution gate with    *)
(* its process-wide registry EXECUTED_MARKETS, and the polling loop of     *)
(* main().                                                                 *)
(*                                                                         *)
(* Python values are records [t, s, c, n, l]: t is the type tag ("null",   *)
(* "str", "text", "num", "list"), n the value of a number and l the        *)
(* elements of a list.  Both "str" and "text" are Python str: the text of  *)
(* category and subcategory is a sequence of characters c ("text"),        *)
(* because the code strips, lower-cases and searches it; every other       *)
(* string is only compared, tested for emptiness or parsed as a whole and  *)
(* is a TLA+ string s ("str").  Numbers are held in hundredths (ONE is     *)
(* 1.0); binary floating-point rounding is not modelled.                   *)
(***************************************************************************)
EXTENDS Integers, Sequences, FiniteSets, TLC

VARIABLES
    pc,                 \* position of main(): "fetch", "find", "execute", "sleep"
    markets,            \* main(): the batch returned by fetch_markets()
    opps,               \* main(): the list returned by find_arbitrage_opportunities
    oi,                 \* main(): index in opps of the next opportunity of the for loop
    cycle,              \* history: what happened to the current cycle's try block
    EXECUTED_MARKETS,   \* the registry (module global)
    placed,             \* history: broker invocations per (market key, outcome position)
    transitions,        \* history: times each key was added while absent from the registry
    lastExec,           \* history: the last call of execute_long_basket_arb
    slept,              \* history: time.sleep calls since the last fetch
    payload,            \* history: kind of the payload of the last fetch ("none" before it)
    acted,              \* history: summaries of the markets that reached EXECUTED_MARKETS.add
    client,             \* main(): the ClobClient, or None
    DRY_RUN,            \* configuration (module global)
    MIN_LIQUIDITY,      \* configuration (module global)
    TARGET_CATEGORIES,  \* configuration (module global)
    market,             \* unit harness: the RawMarket under test
    call,               \* unit harness: the function last applied to market
    ret                 \* unit harness: what it returned, or that it raised

vars == <<pc, markets, opps, oi, cycle, EXECUTED_MARKETS, placed, transitions,
          lastExec, slept, payload, acted, client, DRY_RUN, MIN_LIQUIDITY,
          TARGET_CATEGORIES, market, call, ret>>

----------------------------------------------------------------------------
(* Bounds of the model. *)

MaxBatch == 2       \* markets in one fetched batch
MaxCount == 2       \* history counters saturate here

(* Program constants. *)

ONE == 100                              \* 1.0 in hundredths
FEE_BUFFER == 3                         \* 0.03
MIN_EDGE == 1                           \* 0.01
TARGET_PAYOUT_PER_MARKET_USD == 1000    \* 10.0
DefaultMinLiquidity == 500000           \* 5_000

----------------------------------------------------------------------------
(* Python values. *)

None == [t |-> "null", s |-> "", c |-> <<>>, n |-> 0, l |-> <<>>]
Str(x) == [t |-> "str", s |-> x, c |-> <<>>, n |-> 0, l |-> <<>>]
Text(chars) == [t |-> "text", s |-> "", c |-> chars, n |-> 0, l |-> <<>>]
Num(x) == [t |-> "num", s |-> "", c |-> <<>>, n |-> x, l |-> <<>>]
List(x) == [t |-> "list", s |-> "", c |-> <<>>, n |-> 0, l |-> x]

\* isinstance(v, str)
IsStr(v) == v.t \in {"str", "text"}

\* bool(v): None, 0, the empty string and the empty list are falsy.
Truthy(v) ==
    CASE v.t = "null" -> FALSE
      [] v.t = "str"  -> v.s # ""
      [] v.t = "text" -> v.c # <<>>
      [] v.t = "num"  -> v.n # 0
      [] v.t = "list" -> v.l # <<>>

\* a or b
Or(a, b) == IF Truthy(a) THEN a ELSE b

Range(f) == {f[k] : k \in DOMAIN f}

Min(a, b) == IF a < b THEN a ELSE b

----------------------------------------------------------------------------
(* float(): the texts that occur in the model and the number each denotes  *)
(* (in hundredths); every other text raises ValueError.                    *)

FloatTexts ==
    [x \in {"0.40", "0.45", "0.48", "0.50", "0.51", "0.30", "0.06", "0.00",
            "1.00", "1.50", "-0.10", "6000", "5000", "4999.99", "100", "0"} |->
        CASE x = "0.40" -> 40 [] x = "0.45" -> 45 [] x = "0.48" -> 48
          [] x = "0.50" -> 50 [] x = "0.51" -> 51 [] x = "0.30" -> 30
          [] x = "0.06" -> 6  [] x = "0.00" -> 0  [] x = "1.00" -> 100
          [] x = "1.50" -> 150 [] x = "-0.10" -> -10
          [] x = "6000" -> 600000 [] x = "5000" -> 500000
          [] x = "4999.99" -> 499999 [] x = "100" -> 10000 [] x = "0" -> 0]

\* float(v) raises TypeError (None, a list) or ValueError (a text that is no number).
FloatRaises(v) ==
    CASE v.t = "num" -> FALSE
      [] v.t = "str" -> v.s \notin DOMAIN FloatTexts
      [] OTHER       -> TRUE

Float(v) == IF v.t = "num" THEN v.n ELSE FloatTexts[v.s]

\* str(v)
StrOf(v) ==
    CASE v.t = "str"  -> v.s
      [] v.t = "null" -> "None"
      [] v.t = "num" /\ v.n = 700 -> "7"
      [] v.t = "num" /\ v.n = 500 -> "5"

----------------------------------------------------------------------------
(* str.strip() and str.lower() and the substring test, on character        *)
(* sequences.                                                              *)

Upper == <<"A","B","C","D","E","F","G","H","I","J","K","L","M",
           "N","O","P","Q","R","S","T","U","V","W","X","Y","Z">>
Lower == <<"a","b","c","d","e","f","g","h","i","j","k","l","m",
           "n","o","p","q","r","s","t","u","v","w","x","y","z">>

LowerChar(c) ==
    IF \E k \in 1..26 : Upper[k] = c
    THEN Lower[CHOOSE k \in 1..26 : Upper[k] = c]
    ELSE c

lower(chars) == [k \in 1..Len(chars) |-> LowerChar(chars[k])]

IsSpace(c) == c \in {" ", "\t", "\n"}

RECURSIVE lstrip(_)
lstrip(chars) ==
    IF chars # <<>> /\ IsSpace(Head(chars)) THEN lstrip(Tail(chars)) ELSE chars

RECURSIVE rstrip(_)
rstrip(chars) ==
    IF chars # <<>> /\ IsSpace(chars[Len(chars)])
    THEN rstrip(SubSeq(chars, 1, Len(chars) - 1))
    ELSE chars

strip(chars) == rstrip(lstrip(chars))

\* x in chars
Contains(chars, x) ==
    \E k \in 1..(Len(chars) - Len(x) + 1) : SubSeq(chars, k, k + Len(x) - 1) = x

----------------------------------------------------------------------------
(* The eligibility filters. *)

\* the literal {"sports", "crypto", "politics"} of is_target_category
CategoryKeys ==
    {<<"s","p","o","r","t","s">>,
     <<"c","r","y","p","t","o">>,
     <<"p","o","l","i","t","i","c","s">>}

\* the three keyword lists of is_target_category
SportsKeywords ==
    {<<"s","p","o","r","t","s">>,
     <<"n","b","a">>,
     <<"n","f","l">>,
     <<"s","o","c","c","e","r">>,
     <<"m","l","b">>}

CryptoKeywords ==
    {<<"c","r","y","p","t","o">>,
     <<"b","i","t","c","o","i","n">>,
     <<"b","t","c">>,
     <<"e","t","h">>,
     <<"s","o","l","a","n","a">>}

PoliticsKeywords ==
    {<<"p","o","l","i","t","i","c","s">>,
     <<"e","l","e","c","t","i","o","n">>,
     <<"p","r","i","m","a","r","y">>,
     <<"s","e","n","a","t","e">>,
     <<"p","r","e","s","i","d","e","n","t">>}

\* (market.get(field) or ""), as characters
TextOrEmpty(v) == IF Truthy(v) THEN v.c ELSE <<>>

\* .strip() of a truthy value that is no str raises AttributeError
IsTargetCategoryRaises(m) ==
    \/ Truthy(m.category) /\ ~IsStr(m.category)
    \/ Truthy(m.subcategory) /\ ~IsStr(m.subcategory)

is_target_category(m) ==
    LET cat == strip(TextOrEmpty(m.category))
        subcat == strip(TextOrEmpty(m.subcategory))
        cat_norm == lower(cat)
        subcat_norm == lower(subcat)
    IN  \/ cat_norm \in CategoryKeys
        \/ \E x \in SportsKeywords : Contains(subcat_norm, x)
        \/ \E x \in CryptoKeywords : Contains(subcat_norm, x)
        \/ \E x \in PoliticsKeywords : Contains(subcat_norm, x)

\* market.get("liquidity") or market.get("liquidityNum") or 0
LiquidityRead(m) == Or(Or(m.liquidity, m.liquidityNum), Num(0))

has_enough_liquidity(m) ==
    LET liq == LiquidityRead(m)
    IN  IF FloatRaises(liq) THEN FALSE ELSE Float(liq) >= MIN_LIQUIDITY

----------------------------------------------------------------------------
(* json.loads(): the documents that occur in the model and the value each  *)
(* decodes to; every other text of the model raises JSONDecodeError.       *)

JsonTexts ==
    [x \in {"[]", "null", "5", "\"YN\"",
            "[\"YES\",\"NO\"]", "[\"A\",\"B\",\"C\"]",
            "[\"0.40\",\"0.45\"]", "[\"0.48\",\"0.48\"]", "[\"0.50\",\"0.50\"]",
            "[\"0.30\",\"0.30\",\"0.30\"]", "[\"0.40\",\"abc\",\"0.45\"]",
            "[\"0.40\",\"1.00\",\"0.45\"]", "[\"0.00\",\"0.51\",\"0.45\"]",
            "[\"0x1\",\"0x2\"]", "[\"0x1\",\"0x2\",\"0x3\"]",
            "[\"0x1\",\"\",\"0x3\"]"} |->
        CASE x = "[]" -> List(<<>>)
          [] x = "null" -> None
          [] x = "5" -> Num(500)
          [] x = "\"YN\"" -> Str("YN")
          [] x = "[\"YES\",\"NO\"]" -> List(<<Str("YES"), Str("NO")>>)
          [] x = "[\"A\",\"B\",\"C\"]" -> List(<<Str("A"), Str("B"), Str("C")>>)
          [] x = "[\"0.40\",\"0.45\"]" -> List(<<Str("0.40"), Str("0.45")>>)
          [] x = "[\"0.48\",\"0.48\"]" -> List(<<Str("0.48"), Str("0.48")>>)
          [] x = "[\"0.50\",\"0.50\"]" -> List(<<Str("0.50"), Str("0.50")>>)
          [] x = "[\"0.30\",\"0.30\",\"0.30\"]" ->
                List(<<Str("0.30"), Str("0.30"), Str("0.30")>>)
          [] x = "[\"0.40\",\"abc\",\"0.45\"]" ->
                List(<<Str("0.40"), Str("abc"), Str("0.45")>>)
          [] x = "[\"0.40\",\"1.00\",\"0.45\"]" ->
                List(<<Str("0.40"), Str("1.00"), Str("0.45")>>)
          [] x = "[\"0.00\",\"0.51\",\"0.45\"]" ->
                List(<<Str("0.00"), Str("0.51"), Str("0.45")>>)
          [] x = "[\"0x1\",\"0x2\"]" -> List(<<Str("0x1"), Str("0x2")>>)
          [] x = "[\"0x1\",\"0x2\",\"0x3\"]" ->
                List(<<Str("0x1"), Str("0x2"), Str("0x3")>>)
          [] x = "[\"0x1\",\"\",\"0x3\"]" -> List(<<Str("0x1"), Str(""), Str("0x3")>>)]

JsonRaises(x) == x \notin DOMAIN JsonTexts

\* json.loads(raw) if isinstance(raw, str) else raw
DecodeRaises(raw) == IsStr(raw) /\ JsonRaises(raw.s)
Decode(raw) == IF IsStr(raw) THEN JsonTexts[raw.s] ELSE raw

\* iter(v): a list yields its elements, a str its characters; None and
\* numbers raise TypeError.
Iterable(v) == v.t \in {"list", "str"}
Iter(v) ==
    CASE v.t = "list" -> v.l
      [] v.t = "str" /\ v.s = "YN" -> <<Str("Y"), Str("N")>>
      [] v.t = "str" /\ v.s = "" -> <<>>

----------------------------------------------------------------------------
(* The outcome extractor. *)

names_raw(m) == Or(m.outcomes, Str("[]"))
prices_raw(m) == Or(m.outcomePrices, Str("[]"))
tokens_raw(m) == Or(m.clobTokenIds, Str("[]"))

\* the try block: any json.loads failure is caught and [] returned
ParseFails(m) ==
    DecodeRaises(names_raw(m)) \/ DecodeRaises(prices_raw(m))
        \/ DecodeRaises(tokens_raw(m))

\* the bounds of the price test taken inclusive
Keeps_Inclusive(price, token_id) ==
    /\ ~FloatRaises(price)
    /\ 0 <= Float(price) /\ Float(price) <= ONE
    /\ Truthy(token_id)

\* one triple of the zip: whether it is appended (lines 174-185)
Keeps(price, token_id) ==
    /\ ~FloatRaises(price)
    /\ 0 < Float(price) /\ Float(price) < ONE
    /\ Truthy(token_id)

MakeOutcome(name, price, token_id) ==
    [name |-> StrOf(name), price |-> Float(price), token_id |-> StrOf(token_id)]

RECURSIVE ZipLoop(_, _, _, _)
ZipLoop(names, prices, token_ids, k) ==
    IF k > Min(Len(names), Min(Len(prices), Len(token_ids)))
    THEN <<>>
    ELSE (IF Keeps(prices[k], token_ids[k])
          THEN <<MakeOutcome(names[k], prices[k], token_ids[k])>>
          ELSE <<>>)
         \o ZipLoop(names, prices, token_ids, k + 1)

\* zip() outside the try block raises TypeError on an argument that is not iterable
ExtractRaises(m) ==
    /\ ~ParseFails(m)
    /\ \/ ~Iterable(Decode(names_raw(m)))
       \/ ~Iterable(Decode(prices_raw(m)))
       \/ ~Iterable(Decode(tokens_raw(m)))

\* the value returned when the call does not raise
extract_outcomes_with_tokens(m) ==
    IF ParseFails(m)
    THEN <<>>
    ELSE ZipLoop(Iter(Decode(names_raw(m))), Iter(Decode(prices_raw(m))),
                 Iter(Decode(tokens_raw(m))), 1)

----------------------------------------------------------------------------
(* The analyzer. *)

RECURSIVE SumPrices(_)
SumPrices(outcomes) ==
    IF outcomes = <<>> THEN 0 ELSE Head(outcomes).price + SumPrices(Tail(outcomes))

\* the fields of the summary that the gate reads; the others are only logged
summarize_market(m) == [id |-> m.id, slug |-> m.slug]

\* the return value None of analyze_market_for_arb
NoOpportunity ==
    [type |-> "none", edge |-> 0, sum_prices |-> 0,
     market |-> [id |-> None, slug |-> None], outcomes |-> <<>>]

\* the minimum edge left out of the threshold
long_threshold_NoEdge == ONE - FEE_BUFFER

long_threshold == ONE - FEE_BUFFER - MIN_EDGE

\* the edge measured from the threshold instead of from the fee buffer
EdgeOf_FromThreshold(sum_prices) == long_threshold - sum_prices

\* line 224: edge = (1.0 - FEE_BUFFER) - sum_prices
EdgeOf(sum_prices) == (ONE - FEE_BUFFER) - sum_prices

AnalyzeRaises(m) == ExtractRaises(m)

analyze_market_for_arb(m) ==
    LET outcomes == extract_outcomes_with_tokens(m)
        sum_prices == SumPrices(outcomes)
    IN  IF Len(outcomes) < 2
        THEN NoOpportunity
        ELSE IF sum_prices < long_threshold
             THEN [type |-> "long_basket",
                   edge |-> EdgeOf(sum_prices),
                   sum_prices |-> sum_prices,
                   market |-> summarize_market(m),
                   outcomes |-> outcomes]
             ELSE NoOpportunity

\* find_arbitrage_opportunities: the filters run outside the try block
FindRaises(ms) == \E k \in 1..Len(ms) : IsTargetCategoryRaises(ms[k])

\* the liquidity filter applied whatever MIN_LIQUIDITY is
Eligible_AlwaysLiquidity(m) ==
    /\ is_target_category(m)
    /\ has_enough_liquidity(m)

\* lines 242-245: the market is not skipped by either "continue"
Eligible(m) ==
    /\ is_target_category(m)
    /\ ~(MIN_LIQUIDITY > 0 /\ ~has_enough_liquidity(m))

RECURSIVE find_arbitrage_opportunities(_)
find_arbitrage_opportunities(ms) ==
    IF ms = <<>>
    THEN <<>>
    ELSE LET m == Head(ms)
             keep == /\ Eligible(m)
                     /\ ~AnalyzeRaises(m)
                     /\ analyze_market_for_arb(m) # NoOpportunity
         IN  (IF keep THEN <<analyze_market_for_arb(m)>> ELSE <<>>)
             \o find_arbitrage_opportunities(Tail(ms))

----------------------------------------------------------------------------
(* The execution gate. *)

\* m.get("slug") or m.get("id") or ""
MarketKey(summary) == Or(Or(summary.slug, summary.id), Str(""))

\* the whole target payout spent on every leg
UsdPerOutcome_Undivided(num_outcomes) ==
    [num |-> TARGET_PAYOUT_PER_MARKET_USD, den |-> 1]

\* usd_per_outcome, kept as the fraction TARGET_PAYOUT_PER_MARKET_USD / num_outcomes
UsdPerOutcome(num_outcomes) ==
    [num |-> TARGET_PAYOUT_PER_MARKET_USD, den |-> num_outcomes]

\* one pass of the for loop: the broker is invoked for outcome k and either
\* returns or raises (k in fails); the except clause logs and the loop goes on
PlaceOrder(outcomes, k, fails) ==
    [leg |-> k, token_id |-> outcomes[k].token_id,
     amount |-> UsdPerOutcome(Len(outcomes)), side |-> "BUY",
     order_type |-> "FOK", ok |-> k \notin fails]

\* the except clause missing: the broker's exception leaves the loop
Escapes_Propagates(k, fails) == k \in fails

\* line 327: "except Exception" catches what the broker raises on leg k, so
\* nothing escapes the pass of the loop
Escapes(k, fails) == FALSE

RECURSIVE OrderLoop(_, _, _)
OrderLoop(outcomes, k, fails) ==
    IF k > Len(outcomes)
    THEN <<>>
    ELSE <<PlaceOrder(outcomes, k, fails)>>
         \o (IF Escapes(k, fails) THEN <<>> ELSE OrderLoop(outcomes, k + 1, fails))

\* the registry test missing
AlreadyExecuted_NoCheck(key, registry) == FALSE

\* the key is already in the registry (line 291)
AlreadyExecuted(key, registry) == key \in registry

\* "and" for "or"
NoRealOrders_And(c, dry) == c = "None" /\ dry

\* client is None or DRY_RUN (line 309)
NoRealOrders(c, dry) == c = "None" \/ dry

\* the dry-run branch returning without EXECUTED_MARKETS.add
ReachesAdd_LiveOnly(mode, raised) == mode = "live" /\ ~raised

\* EXECUTED_MARKETS.add(slug) is reached: line 311 in the dry-run branch,
\* line 330 after the for loop
ReachesAdd(mode, raised) == mode = "dry" \/ (mode = "live" /\ ~raised)

\* the test of the outcome count missing
NoOutcomes_Unchecked(num_outcomes) == FALSE

\* line 297: num_outcomes == 0
NoOutcomes(num_outcomes) == num_outcomes = 0

\* the registry rebound to the new key instead of extended
RegistryAfter_Rebound(registry, key, added) ==
    IF added THEN {key} ELSE registry

\* EXECUTED_MARKETS after the call: EXECUTED_MARKETS.add(slug) when reached
RegistryAfter(registry, key, added) ==
    IF added THEN registry \cup {key} ELSE registry

\* the branch execute_long_basket_arb takes
GateMode(c, dry, opp, registry) ==
    IF AlreadyExecuted(MarketKey(opp.market), registry) THEN "skip"
    ELSE IF NoOutcomes(Len(opp.outcomes)) THEN "empty"
    ELSE IF NoRealOrders(c, dry) THEN "dry"
    ELSE "live"

\* execute_long_basket_arb(client, opp) on a registry, the broker raising on
\* the legs in fails: the registry after, the broker invocations made,
\* whether EXECUTED_MARKETS.add was reached and whether the call raised
execute_long_basket_arb(c, dry, opp, registry, fails) ==
    LET key == MarketKey(opp.market)
        mode == GateMode(c, dry, opp, registry)
        orders == IF mode = "live" THEN OrderLoop(opp.outcomes, 1, fails) ELSE <<>>
        raised == mode = "live"
                    /\ \E k \in 1..Len(opp.outcomes) : Escapes(k, fails)
        added == ReachesAdd(mode, raised)
    IN  [key |-> key, mode |-> mode, orders |-> orders, added |-> added,
         raised |-> raised, num_outcomes |-> Len(opp.outcomes),
         registry |-> RegistryAfter(registry, key, added)]

NoExec ==
    [key |-> None, mode |-> "none", orders |-> <<>>, added |-> FALSE,
     raised |-> FALSE, num_outcomes |-> 0]

\* what the history keeps of a call
ExecRecord(r) ==
    [key |-> r.key, mode |-> r.mode, orders |-> r.orders, added |-> r.added,
     raised |-> r.raised, num_outcomes |-> r.num_outcomes]

----------------------------------------------------------------------------
(* The markets of the model. *)

Sports == <<"S","p","o","r","t","s">>
SPORTS == <<"S","P","O","R","T","S">>
CryptoPadded == <<" ","c","r","y","p","t","o"," ">>
Weather == <<"W","e","a","t","h","e","r">>
Sportsbook == <<"s","p","o","r","t","s","b","o","o","k">>
NbaFinals == <<"N","B","A"," ","F","i","n","a","l","s">>
UsElection == <<"U","S"," ","e","l","e","c","t","i","o","n">>
Rainfall == <<"r","a","i","n","f","a","l","l">>

Market(cat, subcat, liq, liqNum, names, prices, tokens, slug, id) ==
    [category |-> cat, subcategory |-> subcat, liquidity |-> liq,
     liquidityNum |-> liqNum, outcomes |-> names, outcomePrices |-> prices,
     clobTokenIds |-> tokens, slug |-> slug, id |-> id]

YesNo == Str("[\"YES\",\"NO\"]")
Abc == Str("[\"A\",\"B\",\"C\"]")
Tokens2 == Str("[\"0x1\",\"0x2\"]")
Tokens3 == Str("[\"0x1\",\"0x2\",\"0x3\"]")

\* an eligible market with the given outcome fields and identifiers
Liquid(names, prices, tokens, slug, id) ==
    Market(Text(Sports), None, Str("6000"), None, names, prices, tokens, slug, id)

\* the markets the listing source returns in the loop model
Markets ==
    { \* long-basket arbitrages: 0.40 + 0.45, and 0.30 + 0.30 + 0.30
      Liquid(YesNo, Str("[\"0.40\",\"0.45\"]"), Tokens2, Str("a"), Str("1")),
      Liquid(Abc, Str("[\"0.30\",\"0.30\",\"0.30\"]"), Tokens3, None, Str("b")),
      \* another market under the key "a", and one with neither slug nor id
      Liquid(Abc, Str("[\"0.30\",\"0.30\",\"0.30\"]"), Tokens3, None, Str("a")),
      Liquid(YesNo, List(<<Num(48), Num(47)>>), Tokens2, None, None),
      \* no arbitrage: 0.50 + 0.50
      Liquid(YesNo, Str("[\"0.50\",\"0.50\"]"), Tokens2, Str("c"), Str("3")),
      \* outcomes that are no sequence: zip raises inside analyze
      Liquid(Num(500), Str("[\"0.40\",\"0.45\"]"), Tokens2, Str("c"), Str("3")),
      \* a category that is no string: strip raises inside the filter
      Market(Num(500), None, Str("6000"), None, YesNo,
             Str("[\"0.40\",\"0.45\"]"), Tokens2, Str("c"), Str("3")),
      \* not a target category; not enough liquidity
      Market(Text(Weather), Text(Rainfall), Str("6000"), None, YesNo,
             Str("[\"0.40\",\"0.45\"]"), Tokens2, Str("c"), Str("3")),
      Market(Text(Sports), None, Str("100"), None, YesNo,
             Str("[\"0.40\",\"0.45\"]"), Tokens2, Str("c"), Str("3")) }

\* sequences of at most n elements of S
SeqsUpTo(S, n) == UNION {[1..k -> S] : k \in 0..n}

Batches == SeqsUpTo(Markets, MaxBatch)

\* the market keys and outcome positions of the loop model
AllKeys == {MarketKey(summarize_market(m)) : m \in Markets}
MaxLegs == 3
Legs == 1..MaxLegs

----------------------------------------------------------------------------
(* The listing fetch: what requests.get(...).json() yields, or that the    *)
(* request, raise_for_status or the decoding raised ("error").             *)

Payloads ==
    {[kind |-> k, markets |-> b] : k \in {"list", "dict"}, b \in Batches}
        \cup {[kind |-> k, markets |-> <<>>] :
                k \in {"dict_without_key", "dict_number", "scalar", "error"}}

\* fetch_markets raises: the request failed, or the payload is neither a
\* dict holding "markets" nor a list
FetchRaises(p) == p.kind \in {"error", "scalar", "dict_without_key"}

\* the value fetch_markets returns for a list or a dict holding a list
fetch_markets(p) == p.markets

\* len(markets) on line 353 raises TypeError when data["markets"] is a number
LenRaises(p) == p.kind = "dict_number"

----------------------------------------------------------------------------
(* The polling loop of main(). *)

\* the try/except of main() missing: the exception ends the process
ExceptTarget_Terminates == "terminated"

\* the except clause going straight to the next pass of the loop
ExceptTarget_SkipsSleep == "fetch"

\* where control goes from the except clause of main() (lines 364-367)
ExceptTarget == "sleep"

DefaultCategories ==
    {<<"S","p","o","r","t","s">>, <<"C","r","y","p","t","o">>,
     <<"P","o","l","i","t","i","c","s">>}

NoMarket == Market(None, None, None, None, None, None, None, None, None)

NoRet == [raised |-> FALSE, bool |-> FALSE, outcomes |-> <<>>, opp |-> NoOpportunity]

Bump(n) == Min(n + 1, MaxCount)

Init ==
    /\ pc = "fetch"
    /\ markets = <<>>
    /\ opps = <<>>
    /\ oi = 0
    /\ cycle = "try"
    /\ EXECUTED_MARKETS = {}
    /\ placed = [x \in AllKeys \X Legs |-> 0]
    /\ transitions = [k \in AllKeys |-> 0]
    /\ lastExec = NoExec
    /\ slept = 0
    /\ payload = "none"
    /\ acted = {}
    /\ client \in {"ClobClient", "None"}
    /\ DRY_RUN \in BOOLEAN
    /\ MIN_LIQUIDITY = DefaultMinLiquidity
    /\ TARGET_CATEGORIES = DefaultCategories
    /\ market = NoMarket
    /\ call = "none"
    /\ ret = NoRet

\* lines 352-353: markets = fetch_markets(); len(markets)
Fetch ==
    /\ pc = "fetch"
    /\ \E p \in Payloads :
        /\ payload' = p.kind
        /\ IF FetchRaises(p)
           THEN /\ pc' = ExceptTarget
                /\ cycle' = "fetch_raised"
                /\ markets' = <<>>
           ELSE IF LenRaises(p)
                THEN /\ pc' = ExceptTarget
                     /\ cycle' = "len_raised"
                     /\ markets' = <<>>
                ELSE /\ pc' = "find"
                     /\ cycle' = "try"
                     /\ markets' = fetch_markets(p)
    /\ slept' = 0
    /\ UNCHANGED <<opps, oi, EXECUTED_MARKETS, placed, transitions, lastExec, acted,
                   client, DRY_RUN, MIN_LIQUIDITY, TARGET_CATEGORIES,
                   market, call, ret>>

\* lines 355-362: opps = find_arbitrage_opportunities(markets)
Find ==
    /\ pc = "find"
    /\ IF FindRaises(markets)
       THEN /\ pc' = ExceptTarget
            /\ cycle' = "find_raised"
            /\ opps' = <<>>
            /\ oi' = 0
       ELSE /\ opps' = find_arbitrage_opportunities(markets)
            /\ IF opps' # <<>>
               THEN pc' = "execute" /\ oi' = 1 /\ cycle' = "try"
               ELSE pc' = "sleep" /\ oi' = 0 /\ cycle' = "done"
    /\ UNCHANGED <<markets, EXECUTED_MARKETS, placed, transitions, lastExec,
                   slept, payload, acted, client, DRY_RUN, MIN_LIQUIDITY, TARGET_CATEGORIES,
                   market, call, ret>>

\* lines 358-360: one pass of "for opp in opps", the whole of
\* execute_long_basket_arb(client, opp)
Execute ==
    /\ pc = "execute"
    /\ \E fails \in SUBSET (1..Len(opps[oi].outcomes)) :
        LET r == execute_long_basket_arb(client, DRY_RUN, opps[oi],
                                         EXECUTED_MARKETS, fails)
        IN  /\ EXECUTED_MARKETS' = r.registry
            /\ placed' = [x \in DOMAIN placed |->
                            IF x[1] = r.key
                                /\ \E j \in 1..Len(r.orders) : r.orders[j].leg = x[2]
                            THEN Bump(placed[x])
                            ELSE placed[x]]
            /\ transitions' = [k \in DOMAIN transitions |->
                                 IF k = r.key /\ r.added
                                 THEN Bump(transitions[k])
                                 ELSE transitions[k]]
            /\ lastExec' = ExecRecord(r)
            /\ acted' = IF r.added THEN acted \cup {opps[oi].market} ELSE acted
            /\ IF r.raised
               THEN pc' = ExceptTarget /\ cycle' = "execute_raised" /\ oi' = oi
               ELSE IF oi = Len(opps)
                    THEN pc' = "sleep" /\ cycle' = "done" /\ oi' = oi
                    ELSE pc' = "execute" /\ cycle' = "try" /\ oi' = oi + 1
    /\ UNCHANGED <<markets, opps, slept, payload, client, DRY_RUN, MIN_LIQUIDITY,
                   TARGET_CATEGORIES, market, call, ret>>

\* line 367: time.sleep(POLL_INTERVAL_SECONDS), then the next pass of "while True"
Sleep ==
    /\ pc = "sleep"
    /\ pc' = "fetch"
    /\ slept' = Bump(slept)
    /\ markets' = <<>>
    /\ opps' = <<>>
    /\ oi' = 0
    /\ cycle' = "try"
    /\ lastExec' = NoExec
    /\ UNCHANGED <<EXECUTED_MARKETS, placed, transitions, payload, acted, client,
                   DRY_RUN, MIN_LIQUIDITY, TARGET_CATEGORIES, market, call, ret>>

Next == Fetch \/ Find \/ Execute \/ Sleep

Spec == Init /\ [][Next]_vars

\* time.sleep(POLL_INTERVAL_SECONDS) returns once the interval has passed,
\* and "while True" then starts its next pass
FairSpec == Spec /\ WF_vars(Sleep)

----------------------------------------------------------------------------
(* The functions applied one at a time to one RawMarket: the inputs are    *)
(* drawn from the products of the field values below.                      *)

CategoryValues ==
    {None, Text(<<>>), Text(Sports), Text(SPORTS), Text(CryptoPadded),
     Text(Weather), Num(500)}

SubcategoryValues ==
    {None, Text(Sportsbook), Text(NbaFinals), Text(UsElection), Text(Rainfall),
     Num(500)}

LiquidityValues ==
    {None, Str(""), Str("6000"), Str("5000"), Str("4999.99"), Str("0"),
     Str("-0.10"), Str("abc"), Num(0), Num(600000)}

LiquidityNumValues == {None, Num(600000), Num(10000), Str("abc")}

NamesValues ==
    {None, YesNo, Abc, List(<<Str("YES"), Str("NO")>>), Str("not json"),
     Num(500), Str("null"), Str("\"YN\"")}

PricesValues ==
    {None, Str("[\"0.40\",\"0.45\"]"), Str("[\"0.48\",\"0.48\"]"),
     Str("[\"0.50\",\"0.50\"]"), Str("[\"0.30\",\"0.30\",\"0.30\"]"),
     Str("[\"0.40\",\"abc\",\"0.45\"]"), Str("[\"0.40\",\"1.00\",\"0.45\"]"),
     Str("[\"0.00\",\"0.51\",\"0.45\"]"), List(<<Num(48), Num(47)>>),
     List(<<None, Num(40), Num(45)>>), Str("[\"0.40\""), Num(500), Str("null")}

TokensValues ==
    {None, Tokens2, Tokens3, Str("[\"0x1\",\"\",\"0x3\"]"),
     List(<<Str("0x1"), Str("0x1")>>), List(<<Num(700), None, Str("0x3")>>),
     Str("not json"), Num(500), Str("null")}

FilterMarkets ==
    {Market(cat, subcat, liq, liqNum, YesNo, Str("[\"0.40\",\"0.45\"]"), Tokens2,
            Str("a"), Str("1")) :
        cat \in CategoryValues, subcat \in SubcategoryValues,
        liq \in LiquidityValues, liqNum \in LiquidityNumValues}

OutcomeMarkets ==
    {Liquid(names, prices, tokens, Str("a"), Str("1")) :
        names \in NamesValues, prices \in PricesValues, tokens \in TokensValues}

RawMarkets == FilterMarkets \cup OutcomeMarkets

ConfiguredCategories ==
    {DefaultCategories,
     {<<"S","p","o","r","t","s">>},
     {<<"C","r","y","p","t","o">>, <<"P","o","l","i","t","i","c","s">>}}

UnitInit ==
    /\ pc = "unit"
    /\ markets = <<>>
    /\ opps = <<>>
    /\ oi = 0
    /\ cycle = "try"
    /\ EXECUTED_MARKETS = {}
    /\ placed = [x \in AllKeys \X Legs |-> 0]
    /\ transitions = [k \in AllKeys |-> 0]
    /\ lastExec = NoExec
    /\ slept = 0
    /\ payload = "none"
    /\ acted = {}
    /\ client = "None"
    /\ DRY_RUN = TRUE
    /\ MIN_LIQUIDITY \in {0, DefaultMinLiquidity}
    /\ TARGET_CATEGORIES \in ConfiguredCategories
    /\ market \in RawMarkets
    /\ call = "none"
    /\ ret = NoRet

UnitFrame ==
    UNCHANGED <<pc, markets, opps, oi, cycle, EXECUTED_MARKETS, placed,
                transitions, lastExec, slept, payload, acted, client, DRY_RUN,
                MIN_LIQUIDITY, TARGET_CATEGORIES, market>>

CallIsTargetCategory ==
    /\ pc = "unit"
    /\ call' = "is_target_category"
    /\ ret' = IF IsTargetCategoryRaises(market)
              THEN [NoRet EXCEPT !.raised = TRUE]
              ELSE [NoRet EXCEPT !.bool = is_target_category(market)]
    /\ UnitFrame

CallHasEnoughLiquidity ==
    /\ pc = "unit"
    /\ call' = "has_enough_liquidity"
    /\ ret' = [NoRet EXCEPT !.bool = has_enough_liquidity(market)]
    /\ UnitFrame

CallExtract ==
    /\ pc = "unit"
    /\ call' = "extract_outcomes_with_tokens"
    /\ ret' = IF ExtractRaises(market)
              THEN [NoRet EXCEPT !.raised = TRUE]
              ELSE [NoRet EXCEPT !.outcomes = extract_outcomes_with_tokens(market)]
    /\ UnitFrame

CallAnalyze ==
    /\ pc = "unit"
    /\ call' = "analyze_market_for_arb"
    /\ ret' = IF AnalyzeRaises(market)
              THEN [NoRet EXCEPT !.raised = TRUE]
              ELSE [NoRet EXCEPT !.opp = analyze_market_for_arb(market)]
    /\ UnitFrame

\* find_arbitrage_opportunities([market]); ret.bool tells whether the loop
\* body got past both "continue" statements to the call of the analyzer
CallFind ==
    /\ pc = "unit"
    /\ call' = "find_arbitrage_opportunities"
    /\ ret' = IF FindRaises(<<market>>)
              THEN [NoRet EXCEPT !.raised = TRUE]
              ELSE LET found == find_arbitrage_opportunities(<<market>>)
                   IN  [NoRet EXCEPT
                           !.bool = Eligible(market),
                           !.opp = IF found = <<>> THEN NoOpportunity ELSE found[1]]
    /\ UnitFrame

UnitNext ==
    \/ CallIsTargetCategory
    \/ CallHasEnoughLiquidity
    \/ CallExtract
    \/ CallAnalyze
    \/ CallFind

UnitSpec == UnitInit /\ [][UnitNext]_vars

----------------------------------------------------------------------------
(* The gate harness: execute_long_basket_arb called, any number of times,  *)
(* on any opportunity dict, those with no or one outcome included (the     *)
(* analyzer never returns such, the function accepts them).                *)

EmptyOpp(slug) ==
    [type |-> "long_basket", edge |-> EdgeOf(0), sum_prices |-> 0,
     market |-> [id |-> None, slug |-> slug], outcomes |-> <<>>]

SingleOpp ==
    [type |-> "long_basket", edge |-> EdgeOf(40), sum_prices |-> 40,
     market |-> [id |-> Str("3"), slug |-> Str("c")],
     outcomes |-> <<[name |-> "YES", price |-> 40, token_id |-> "0x1"]>>]

\* what the analyzer returns on the markets of the model, and the above
GateOpps ==
    UNION {Range(find_arbitrage_opportunities(<<m>>)) :
             m \in {x \in Markets : ~FindRaises(<<x>>)}}
        \cup {EmptyOpp(Str("a")), EmptyOpp(Str("c")), SingleOpp}

GateInit ==
    /\ pc = "gate"
    /\ markets = <<>>
    /\ opps = <<>>
    /\ oi = 0
    /\ cycle = "try"
    /\ EXECUTED_MARKETS = {}
    /\ placed = [x \in AllKeys \X Legs |-> 0]
    /\ transitions = [k \in AllKeys |-> 0]
    /\ lastExec = NoExec
    /\ slept = 0
    /\ payload = "none"
    /\ acted = {}
    /\ client \in {"ClobClient", "None"}
    /\ DRY_RUN \in BOOLEAN
    /\ MIN_LIQUIDITY = DefaultMinLiquidity
    /\ TARGET_CATEGORIES = DefaultCategories
    /\ market = NoMarket
    /\ call = "none"
    /\ ret = NoRet

\* execute_long_basket_arb(client, opp); opps keeps the argument
CallExecute ==
    /\ pc = "gate"
    /\ \E opp \in GateOpps :
        \E fails \in SUBSET (1..Len(opp.outcomes)) :
            LET r == execute_long_basket_arb(client, DRY_RUN, opp,
                                             EXECUTED_MARKETS, fails)
            IN  /\ opps' = <<opp>>
                /\ oi' = 1
                /\ EXECUTED_MARKETS' = r.registry
                /\ placed' = [x \in DOMAIN placed |->
                                IF x[1] = r.key
                                    /\ \E j \in 1..Len(r.orders) : r.orders[j].leg = x[2]
                                THEN Bump(placed[x])
                                ELSE placed[x]]
                /\ transitions' = [k \in DOMAIN transitions |->
                                     IF k = r.key /\ r.added
                                     THEN Bump(transitions[k])
                                     ELSE transitions[k]]
                /\ lastExec' = ExecRecord(r)
                /\ acted' = IF r.added THEN acted \cup {opp.market} ELSE acted
    /\ UNCHANGED <<pc, markets, cycle, slept, payload, client, DRY_RUN,
                   MIN_LIQUIDITY, TARGET_CATEGORIES, market, call, ret>>

GateNext == CallExecute

GateSpec == GateInit /\ [][GateNext]_vars

----------------------------------------------------------------------------
(* Properties. *)

FailedCycle ==
    cycle \in {"fetch_raised", "len_raised", "find_raised", "execute_raised"}

\* C1: in the loop, a market key is registered by at most one call of execute
\* and by the first call made with it; the broker is invoked at most once per
\* (key, outcome position) over all calls; a call that finds its key in the
\* registry invokes no broker and does not reach EXECUTED_MARKETS.add.
C1_ExecuteOncePerKey ==
    /\ \A k \in AllKeys : transitions[k] <= 1
    /\ \A k \in AllKeys : (transitions[k] = 1) <=> (k \in EXECUTED_MARKETS)
    /\ \A x \in DOMAIN placed : placed[x] <= 1
    /\ lastExec.mode # "none" => transitions[lastExec.key] = 1
    /\ lastExec.mode = "skip" => lastExec.orders = <<>> /\ ~lastExec.added

\* C1 witness: in live mode, a second call with a key whose first call placed
\* its orders was skipped.
C1_Witness ==
    /\ lastExec.mode = "skip"
    /\ client = "ClobClient" /\ ~DRY_RUN
    /\ transitions[lastExec.key] = 1
    /\ placed[<<lastExec.key, 1>>] = 1

\* C2: with no client or with DRY_RUN set, no broker invocation is ever made,
\* and a call with a non-empty outcome list leaves its key in the registry.
C2_DryRunNeverTrades ==
    (client = "None" \/ DRY_RUN) =>
        /\ \A x \in DOMAIN placed : placed[x] = 0
        /\ lastExec.orders = <<>>
        /\ (lastExec.mode # "none" /\ lastExec.num_outcomes > 0)
              => lastExec.key \in EXECUTED_MARKETS

\* C2 witness: a client is present, DRY_RUN is set, and a call took the
\* dry-run branch and registered its key.
C2_Witness ==
    /\ client = "ClobClient" /\ DRY_RUN
    /\ lastExec.mode = "dry"
    /\ lastExec.num_outcomes > 0
    /\ lastExec.key \in EXECUTED_MARKETS

\* C3: when analyze_market_for_arb returns, with P the extracted outcomes:
\* fewer than 2 outcomes give None; otherwise an opportunity is returned
\* exactly when sum(P) < 1 - fee_buffer - min_edge, and it carries
\* sum_prices = sum(P) and edge = (1 - fee_buffer) - sum(P).
C3_AnalyzerThreshold ==
    (call = "analyze_market_for_arb" /\ ~ret.raised) =>
        LET P == extract_outcomes_with_tokens(market)
            total == SumPrices(P)
        IN  /\ Len(P) < 2 => ret.opp = NoOpportunity
            /\ Len(P) >= 2 =>
                /\ (ret.opp # NoOpportunity) <=> (total < ONE - FEE_BUFFER - MIN_EDGE)
                /\ ret.opp # NoOpportunity =>
                    /\ ret.opp.sum_prices = total
                    /\ ret.opp.edge = (ONE - FEE_BUFFER) - total
                    /\ \A k \in 1..Len(P) : 0 < P[k].price /\ P[k].price < ONE

\* C3 witness: prices 0.40 and 0.45 give an opportunity with edge 0.12.
C3_Witness ==
    /\ call = "analyze_market_for_arb"
    /\ ret.opp # NoOpportunity
    /\ ret.opp.sum_prices = 85
    /\ ret.opp.edge = 12

\* C4 (as claimed): extract_outcomes_with_tokens never raises, and returns
\* the empty sequence when a field fails to decode or is, or decodes to,
\* something that is not a sequence.
C4_ExtractorTotal ==
    call = "extract_outcomes_with_tokens" =>
        /\ ~ret.raised
        /\ (\E f \in {names_raw(market), prices_raw(market), tokens_raw(market)} :
                DecodeRaises(f) \/ Decode(f).t # "list")
              => ret.outcomes = <<>>

\* C5: the loop never terminates, and a cycle whose try block raised is
\* followed by the next cycle's fetch.
C5_FailedCycleContinues ==
    /\ [](pc # "terminated")
    /\ FailedCycle ~> (pc = "fetch")

\* C5 witness: find_arbitrage_opportunities raised and main is about to sleep.
C5_Witness == cycle = "find_raised" /\ pc = "sleep"

\* what one market yields when read on its own, a failure while reading it
\* counting as no opportunity
OpportunityOf(m) ==
    IF IsTargetCategoryRaises(m) \/ ~Eligible(m) \/ AnalyzeRaises(m)
    THEN NoOpportunity
    ELSE analyze_market_for_arb(m)

\* C6 (as claimed): once the batch is processed, the opportunity of every
\* market of the batch is in the list handed to the gate, whatever the other
\* markets of the batch hold.
C6_BadMarketDoesNotHaltBatch ==
    (pc \in {"execute", "sleep"} /\ cycle # "fetch_raised") =>
        \A k \in 1..Len(markets) :
            OpportunityOf(markets[k]) # NoOpportunity
                => OpportunityOf(markets[k]) \in Range(opps)

\* C7: a live call attempts every outcome of the basket in order, whatever
\* legs fail, and leaves its key in the registry.
C7_AllLegsAttempted ==
    lastExec.mode = "live" =>
        /\ Len(lastExec.orders) = lastExec.num_outcomes
        /\ \A k \in 1..Len(lastExec.orders) : lastExec.orders[k].leg = k
        /\ lastExec.added
        /\ lastExec.key \in EXECUTED_MARKETS

\* C7 witness: the first leg failed, the second was placed, the key is
\* registered.
C7_Witness ==
    /\ lastExec.mode = "live"
    /\ ~lastExec.orders[1].ok
    /\ lastExec.orders[2].ok
    /\ lastExec.key \in EXECUTED_MARKETS

\* C8: for the opportunity about to be executed and the registry as it is,
\* the registry after a dry run equals the registry after a live run,
\* whatever legs fail; only the live run invokes the broker.
C8_DryRunEquivalence ==
    pc = "execute" =>
        \A fails \in SUBSET (1..Len(opps[oi].outcomes)) :
            LET live == execute_long_basket_arb("ClobClient", FALSE, opps[oi],
                                                EXECUTED_MARKETS, fails)
                dry == execute_long_basket_arb("ClobClient", TRUE, opps[oi],
                                               EXECUTED_MARKETS, fails)
                absent == execute_long_basket_arb("None", FALSE, opps[oi],
                                                  EXECUTED_MARKETS, fails)
            IN  /\ dry.registry = live.registry
                /\ absent.registry = live.registry
                /\ dry.orders = <<>> /\ absent.orders = <<>>

\* C8 witness: a second opportunity of a batch is about to be executed on a
\* registry that holds the first, and its key is not registered yet.
C8_Witness ==
    /\ pc = "execute"
    /\ oi = 2
    /\ EXECUTED_MARKETS # {}
    /\ MarketKey(opps[oi].market) \notin EXECUTED_MARKETS

\* the keyword list of a target category
KeywordsOf(target) ==
    CASE lower(target) = <<"s","p","o","r","t","s">> -> SportsKeywords
      [] lower(target) = <<"c","r","y","p","t","o">> -> CryptoKeywords
      [] lower(target) = <<"p","o","l","i","t","i","c","s">> -> PoliticsKeywords
      [] OTHER -> {}

\* C9 (as claimed): a market passes the category test only if its category
\* is one of the configured target categories or its subcategory contains a
\* keyword of one of them.
C9_CategoryRelativeToTargets ==
    (call = "is_target_category" /\ ~ret.raised /\ ret.bool) =>
        LET cat_norm == lower(strip(TextOrEmpty(market.category)))
            subcat_norm == lower(strip(TextOrEmpty(market.subcategory)))
        IN  \/ \E target \in TARGET_CATEGORIES : cat_norm = lower(target)
            \/ \E target \in TARGET_CATEGORIES :
                   \E x \in KeywordsOf(target) : Contains(subcat_norm, x)

\* C10 (as claimed): the liquidity test reads the primary field when it is
\* present and the secondary field only when the primary is absent, and
\* passes exactly when the value read coerces to a number that is at least
\* MIN_LIQUIDITY.
C10_PrimaryLiquidityDecides ==
    call = "has_enough_liquidity" =>
        LET chosen == IF market.liquidity # None
                      THEN market.liquidity
                      ELSE market.liquidityNum
        IN  chosen # None =>
                (ret.bool <=> (~FloatRaises(chosen) /\ Float(chosen) >= MIN_LIQUIDITY))

\* C11: a market reaches the analyzer exactly when the category filter
\* accepts it and the liquidity filter accepts it, the liquidity filter
\* accepting every market when MIN_LIQUIDITY is 0.
C11_EligibleIffBothFilters ==
    (call = "find_arbitrage_opportunities" /\ ~ret.raised) =>
        /\ ret.bool <=> /\ is_target_category(market)
                        /\ (MIN_LIQUIDITY = 0 \/ has_enough_liquidity(market))
        /\ (MIN_LIQUIDITY = 0 /\ is_target_category(market)) => ret.bool

\* C11 witness: with MIN_LIQUIDITY 0 a target market whose liquidity is not a
\* number reached the analyzer.
C11_Witness ==
    /\ call = "find_arbitrage_opportunities"
    /\ MIN_LIQUIDITY = 0
    /\ market.liquidity = Str("abc")
    /\ market.liquidityNum = None
    /\ ret.bool

\* C12 (as claimed): a payload that is neither a list nor a dict holding a
\* list under "markets" makes fetch_markets raise its format error, and the
\* cycle is skipped: nothing analysed, no call of the gate.
C12_FetchRejectsOtherShapes ==
    (pc = "sleep" /\ payload \in {"dict_without_key", "dict_number", "scalar"}) =>
        /\ cycle = "fetch_raised"
        /\ opps = <<>>
        /\ lastExec = NoExec

\* C13: the registry is empty at start and only grows: no step removes a key.
C13_RegistryMonotone ==
    /\ EXECUTED_MARKETS = {}
    /\ [][EXECUTED_MARKETS \subseteq EXECUTED_MARKETS']_vars

\* C13 witness: the registry holds two keys and a later cycle has failed.
C13_Witness ==
    /\ Cardinality(EXECUTED_MARKETS) >= 2
    /\ cycle = "find_raised"

\* C14: when the three fields hold (or decode to) lists, the extractor
\* returns, in input order, exactly the positions below the shortest length
\* whose price converts to a number strictly between 0 and 1 and whose token
\* id is present and not empty; duplicates stay and nothing else is returned.
C14_ExtractorSubsequence ==
    (/\ call = "extract_outcomes_with_tokens"
     /\ ~ParseFails(market)
     /\ Decode(names_raw(market)).t = "list"
     /\ Decode(prices_raw(market)).t = "list"
     /\ Decode(tokens_raw(market)).t = "list") =>
        LET names == Decode(names_raw(market)).l
            prices == Decode(prices_raw(market)).l
            tokens == Decode(tokens_raw(market)).l
            shortest == Min(Len(names), Min(Len(prices), Len(tokens)))
            kept == {i \in 1..shortest :
                        /\ ~FloatRaises(prices[i])
                        /\ 0 < Float(prices[i]) /\ Float(prices[i]) < ONE
                        /\ tokens[i] # None /\ tokens[i] # Str("")}
            pos(j) == CHOOSE i \in kept : Cardinality({k \in kept : k < i}) = j - 1
            out == ret.outcomes
        IN  /\ ~ret.raised
            /\ Len(out) = Cardinality(kept)
            /\ \A j \in 1..Len(out) :
                    /\ out[j].name = StrOf(names[pos(j)])
                    /\ out[j].price = Float(prices[pos(j)])
                    /\ out[j].token_id = StrOf(tokens[pos(j)])
                    /\ 0 < out[j].price /\ out[j].price < ONE
                    /\ out[j].token_id # ""

\* C14 witness: of three listed outcomes the middle one, priced 1.00, is
\* dropped and the two others are returned.
C14_Witness ==
    /\ call = "extract_outcomes_with_tokens"
    /\ market.outcomes = Abc
    /\ market.outcomePrices = Str("[\"0.40\",\"1.00\",\"0.45\"]")
    /\ market.clobTokenIds = Tokens3
    /\ Len(ret.outcomes) = 2
    /\ ret.outcomes[2].name = "C"

\* C15: a call with an empty outcome list and a key not in the registry
\* returns leaving the registry as it was and invoking no broker, whether the
\* mode is dry-run or live.
C15_EmptyBasketNoOp ==
    [][(lastExec'.num_outcomes = 0 /\ lastExec'.mode \notin {"none", "skip"}) =>
          /\ EXECUTED_MARKETS' = EXECUTED_MARKETS
          /\ placed' = placed
          /\ lastExec'.orders = <<>>
          /\ ~lastExec'.added
          /\ ~lastExec'.raised
          /\ lastExec'.key \notin EXECUTED_MARKETS']_vars

\* C15 witness: in live mode, with a key already in the registry, a call with
\* no outcome for another key has returned.
C15_Witness ==
    /\ client = "ClobClient" /\ ~DRY_RUN
    /\ EXECUTED_MARKETS # {}
    /\ opps = <<EmptyOpp(Str("c"))>>
    /\ lastExec.mode = "empty"

\* C16: a live call on a key not in the registry invokes the broker once per
\* outcome, in basket order, each a fill-or-kill buy of that outcome's token
\* for TARGET_PAYOUT_PER_MARKET_USD / n: equal notionals that add up to the
\* target payout.
C16_LiveOrdersPerOutcome ==
    lastExec.mode = "live" =>
        LET outcomes == opps[1].outcomes
            n == Len(outcomes)
            orders == lastExec.orders
        IN  /\ n >= 1
            /\ Len(orders) = n
            /\ \A k \in 1..n :
                    /\ orders[k].leg = k
                    /\ orders[k].token_id = outcomes[k].token_id
                    /\ orders[k].side = "BUY"
                    /\ orders[k].order_type = "FOK"
                    /\ orders[k].amount = orders[1].amount
                    /\ n * orders[k].amount.num
                           = TARGET_PAYOUT_PER_MARKET_USD * orders[k].amount.den

\* C16 witness: a live call with three outcomes whose second order failed.
C16_Witness ==
    /\ lastExec.mode = "live"
    /\ Len(lastExec.orders) = 3
    /\ ~lastExec.orders[2].ok
    /\ lastExec.orders[3].ok

\* C17: the loop is sequential; a fetch is made only at the head of a cycle,
\* the first with no sleep before it and every later one after exactly one
\* sleep since the fetch before, however that cycle ended; no sleep happens
\* while a batch is being processed.
C17_OneSleepBetweenFetches ==
    /\ pc \in {"fetch", "find", "execute", "sleep"}
    /\ pc = "fetch" => IF payload = "none" THEN slept = 0 ELSE slept = 1
    /\ pc # "fetch" => slept = 0 /\ payload # "none"

\* C17 witness: the cycle before ended in an exception (len() of a number)
\* and the loop, having slept once, is about to fetch again.
C17_Witness ==
    /\ pc = "fetch"
    /\ payload = "dict_number"
    /\ slept = 1
    /\ EXECUTED_MARKETS # {}

\* C18 (as claimed): the basket of an opportunity the analyzer returns has
\* one entry for every outcome the market lists, none missing.
C18_BasketCoversEveryOutcome ==
    (/\ call = "analyze_market_for_arb"
     /\ ~ret.raised
     /\ ret.opp # NoOpportunity) =>
        LET names == Iter(Decode(names_raw(market)))
        IN  /\ Len(ret.opp.outcomes) = Len(names)
            /\ \A k \in 1..Len(names) :
                    \E j \in 1..Len(ret.opp.outcomes) :
                        ret.opp.outcomes[j].name = StrOf(names[k])

\* C19 (as claimed): executing one market leaves every other market unseen:
\* an opportunity about to be handed to the gate, on a market that has not
\* itself been executed, finds its key absent from the registry.
C19_DistinctMarketsIndependent ==
    (pc = "execute" /\ opps[oi].market \notin acted) =>
        MarketKey(opps[oi].market) \notin EXECUTED_MARKETS

\* C20: every opportunity the analyzer hands to main() has an edge strictly
\* above MIN_EDGE, hence strictly positive, and every order sent to the
\* broker is for an outcome of such an opportunity.
C20_EdgeAboveMinimum ==
    /\ \A k \in 1..Len(opps) :
            /\ opps[k].type = "long_basket"
            /\ opps[k].edge > MIN_EDGE
            /\ opps[k].edge > 0
    /\ lastExec.orders # <<>> =>
            \E k \in 1..Len(opps) :
                /\ opps[k].edge > MIN_EDGE
                /\ MarketKey(opps[k].market) = lastExec.key
                /\ \A j \in 1..Len(lastExec.orders) :
                        lastExec.orders[j].token_id
                            = opps[k].outcomes[lastExec.orders[j].leg].token_id

\* C20 witness: orders were sent for the opportunity priced 0.48 + 0.47,
\* whose edge of 0.02 is the smallest above MIN_EDGE.
C20_Witness ==
    /\ lastExec.mode = "live"
    /\ Len(lastExec.orders) = 2
    /\ \E k \in 1..Len(opps) :
            /\ opps[k].sum_prices = 95
            /\ opps[k].edge = 2
            /\ MarketKey(opps[k].market) = lastExec.key

====
